---- MODULE Spec2Model ----
(***************************************************************************)
(* Model of drivers/storage/rbd/utils/utils.go (libstorage, RBD driver).   *)
(*                                                                         *)
(* The package is a set of stateless functions: each spawns one external   *)
(* tool (rados / rbd), waits for it and interprets exit status, stdout and *)
(* stderr; ParseMonitorAddresses normalises monitor addresses.             *)
(*                                                                         *)
(* Strings are sequences of one-character strings, so that formatting,     *)
(* splitting, trimming and parsing are computed and not assumed.           *)
(* A state is one call: its arguments (call), what the environment did     *)
(* during it (proc: the tool's behaviour, dns: the resolver's answer,      *)
(* order: Go's map iteration order) and what the function returned.        *)
(***************************************************************************)
EXTENDS Integers, Sequences, FiniteSets, TLC

VARIABLES pc, call, proc, dns, order, result

vars == <<pc, call, proc, dns, order, result>>

(***************************************************************************)
(* Bounds of the model                                                     *)
(***************************************************************************)
\* longest plain-text stdout (characters)
MaxOut == 5
\* longest stderr text (characters)
MaxErr == 2
\* largest exit status the tool returns (real range 0..255)
MaxStatus == 3
\* longest monitor address list
MaxAddrs == 2
\* most entries of the showmapped table
MaxTable == 2
\* most watchers in a status document
MaxWatchers == 2

(***************************************************************************)
(* Strings                                                                 *)
(***************************************************************************)
RECURSIVE SeqsUpTo(_, _)
\* all sequences over S of length at most n
SeqsUpTo(S, n) ==
    IF n = 0 THEN {<<>>}
    ELSE LET shorter == SeqsUpTo(S, n - 1)
         IN  shorter \cup {Append(s, c) : s \in {t \in shorter : Len(t) = n - 1}, c \in S}

\* s[from..] (1-based), empty when from is past the end
From(s, from) == SubSeq(s, from, Len(s))

\* strings.IndexByte: first position of c in s, 0 when absent
IndexByte(s, c) ==
    IF \E i \in 1..Len(s) : s[i] = c
    THEN CHOOSE i \in 1..Len(s) : s[i] = c /\ \A j \in 1..(i - 1) : s[j] # c
    ELSE 0

\* last position of c in s, 0 when absent
LastIndexByte(s, c) ==
    IF \E i \in 1..Len(s) : s[i] = c
    THEN CHOOSE i \in 1..Len(s) : s[i] = c /\ \A j \in (i + 1)..Len(s) : s[j] # c
    ELSE 0

\* strings.HasPrefix(s, c) for a one-character prefix
HasPrefix(s, c) == Len(s) > 0 /\ s[1] = c

\* strings.Contains(s, c) for a one-character substring
Contains(s, c) == \E i \in 1..Len(s) : s[i] = c

\* strings.Trim(s, cutset): leading and trailing characters of cutset removed
Trim(s, cutset) ==
    IF \A i \in 1..Len(s) : s[i] \in cutset THEN <<>>
    ELSE LET lo == CHOOSE i \in 1..Len(s) :
                       s[i] \notin cutset /\ \A j \in 1..(i - 1) : s[j] \in cutset
             hi == CHOOSE i \in 1..Len(s) :
                       s[i] \notin cutset /\ \A j \in (i + 1)..Len(s) : s[j] \in cutset
         IN  SubSeq(s, lo, hi)

\* the white space strings.TrimSpace removes (of the characters modelled)
WhiteSpace == {" ", "\n", "\r", "\t"}

TrimSpace(s) == Trim(s, WhiteSpace)

Digits == <<"0", "1", "2", "3", "4", "5", "6", "7", "8", "9">>

HexDigits == Digits \o <<"a", "b", "c", "d", "e", "f">>

IsDigit(c) == \E i \in 1..Len(Digits) : Digits[i] = c

HexVal(c) == (CHOOSE i \in 1..Len(HexDigits) : HexDigits[i] = c) - 1

(***************************************************************************)
(* Go values: results and errors                                           *)
(***************************************************************************)
\* a nil pointer / slice / map result
Nil == [nil |-> TRUE, v |-> <<>>]

Some(x) == [nil |-> FALSE, v |-> x]

\* the nil error
NilErr == [kind |-> "nil", msg |-> <<>>, inner |-> "none"]

\* goof.Newf(prefix + "%s", text): the message is the prefix followed by text
Newf(prefix, text) == [kind |-> "goof", msg |-> <<prefix>> \o text, inner |-> "none"]

\* goof.New(msg)
New(msg) == [kind |-> "goof", msg |-> <<msg>>, inner |-> "none"]

\* goof.WithError(msg, err): the message, and err carried as the inner error
WithError(msg, inner) == [kind |-> "goof", msg |-> <<msg>>, inner |-> inner]

\* an error of package net returned as is
NetErr(what) == [kind |-> "net", msg |-> <<what>>, inner |-> "none"]

Ret(val, err) == [val |-> val, err |-> err]

(***************************************************************************)
(* os/exec: what the tool did, and what cmd.Output / cmd.Run report        *)
(***************************************************************************)
\* stderr texts
ErrTexts == SeqsUpTo({"E", "F"}, MaxErr)

\* exit statuses of a process that ran; -1 is ExitStatus() of one killed by a signal
FailStatuses == {-1} \cup 1..MaxStatus

\* the behaviours of the tool: it could not be started, it exited 0, or it
\* exited non-zero; okOuts / failOuts are what it may have written to stdout
ProcBehaviours(okOuts, failOuts) ==
    [started : {FALSE}, status : {-1}, stdout : failOuts, stderr : {<<>>}]
    \cup [started : {TRUE}, status : {0}, stdout : okOuts,
          stderr : {e \in ErrTexts : Len(e) <= 1}]
    \cup [started : {TRUE}, status : FailStatuses, stdout : failOuts, stderr : ErrTexts]

\* cmd.Output(): stdout is captured; as cmd.Stderr is nil, stderr is captured
\* into ExitError.Stderr
CmdOutput(p) ==
    IF ~p.started THEN [out |-> p.stdout, err |-> "Error", status |-> -1, Stderr |-> <<>>]
    ELSE IF p.status = 0 THEN [out |-> p.stdout, err |-> "nil", status |-> 0, Stderr |-> <<>>]
    ELSE [out |-> p.stdout, err |-> "ExitError", status |-> p.status, Stderr |-> p.stderr]

\* cmd.Run(): nothing is captured; ExitError.Stderr is only filled by Output()
CmdRun(p) ==
    IF ~p.started THEN [out |-> <<>>, err |-> "Error", status |-> -1, Stderr |-> <<>>]
    ELSE IF p.status = 0 THEN [out |-> <<>>, err |-> "nil", status |-> 0, Stderr |-> <<>>]
    ELSE [out |-> <<>>, err |-> "ExitError", status |-> p.status, Stderr |-> <<>>]

\* the error branch every function shares: an ExitError gives
\* goof.Newf(prefix: stderr), any other error goof.WithError(msg, err)
ExecFailure(r, prefix, msg) ==
    IF r.err = "ExitError" THEN Newf(prefix, r.Stderr) ELSE WithError(msg, "exec")

(***************************************************************************)
(* Inputs                                                                  *)
(***************************************************************************)
\* pool and image names; "a.b"/"c" and "a"/"b.c" format to the same volume ID
Pools == {<<"a">>, <<"a", ".", "b">>}

Images == {<<"c">>, <<"b", ".", "c">>}

Devices == {<<"/dev/rbd0">>, <<"/dev/rbd1">>}

\* plain-text stdout: of rados lspools, and of rbd map
PlainOuts == SeqsUpTo({"a", "b", "\n", "\r"}, MaxOut)

\* what is drawn for the stdout of a run whose stdout the code never reads
IgnoredPlainOuts == {<<>>, <<"a">>}

(***************************************************************************)
(* GetRadosPools                                                           *)
(***************************************************************************)
\* bufio's dropCR: one trailing carriage return removed
dropCR(data) ==
    IF Len(data) > 0 /\ data[Len(data)] = "\r" THEN SubSeq(data, 1, Len(data) - 1)
    ELSE data

RECURSIVE ScanLines_SkipBlank(_)
\* mutant: an empty line yields no token
ScanLines_SkipBlank(data) ==
    IF Len(data) = 0 THEN <<>>
    ELSE LET i == IndexByte(data, "\n")
             line == dropCR(IF i > 0 THEN SubSeq(data, 1, i - 1) ELSE data)
             rest == IF i > 0 THEN ScanLines_SkipBlank(From(data, i + 1)) ELSE <<>>
         IN  IF line = <<>> THEN rest ELSE <<line>> \o rest

RECURSIVE ScanLines(_)
\* every token of bufio.Scanner with the default split function ScanLines:
\* each line with its end-of-line marker removed, an empty line as the empty
\* string; a final line without newline is returned when it is non-empty
ScanLines(data) ==
    IF Len(data) = 0 THEN <<>>
    ELSE LET i == IndexByte(data, "\n")
         IN  IF i > 0
             THEN <<dropCR(SubSeq(data, 1, i - 1))>> \o ScanLines(From(data, i + 1))
             ELSE <<dropCR(data)>>

\* a slice of pointers, one to each element: the same strings, in order
ConvStrArrayToPtr(strArr) == [i \in 1..Len(strArr) |-> strArr[i]]

GetRadosPools(p) ==
    LET r == CmdOutput(p)
    IN  IF r.err # "nil"
        THEN Ret(Nil, ExecFailure(r, "Unable to get pools: ", "Unable to get pools"))
        ELSE Ret(Some(ConvStrArrayToPtr(ScanLines(r.out))), NilErr)

(***************************************************************************)
(* JSON documents on stdout.  A document is what the text parses to: t is  *)
(* its top-level shape ("bad": not JSON), items its content.               *)
(***************************************************************************)
JsonDoc(t, items) == [t |-> t, items |-> items]

\* rbd ls: an array of image objects
ImageObjs == [image : Images, size : {0, 1}, format : {2}]

ImageDocs ==
    {JsonDoc(t, <<>>) : t \in {"bad", "null", "obj"}}
    \cup {JsonDoc("arr", items) : items \in SeqsUpTo(ImageObjs, 1)}

\* rbd info: one object
InfoObjs == [name : Images, size : {0, 1}]

InfoDocs ==
    {JsonDoc(t, <<>>) : t \in {"bad", "null", "arr"}}
    \cup {JsonDoc("obj", <<o>>) : o \in InfoObjs}

\* rbd showmapped: an object keyed by mapping id; items are its entries in the
\* order of the text, the key of the i-th being i
MappedEntries == [device : Devices, name : Images, pool : Pools]

MappedDocs ==
    {JsonDoc(t, <<>>) : t \in {"bad", "null", "arr"}}
    \cup {JsonDoc("obj", items) : items \in SeqsUpTo(MappedEntries, MaxTable)}

\* a JSON value of a status document: items are the elements of an array or
\* the member names of an object
JVal(t, items) == [t |-> t, items |-> items]

JNull == JVal("null", <<>>)

WatcherKeys == <<"w1", "w2", "w3", "w4">>

WatcherVals ==
    {JVal(t, <<>>) : t \in {"null", "bool", "num", "str"}}
    \cup {JVal("arr", [i \in 1..n |-> "{}"]) : n \in 0..MaxWatchers}
    \cup {JVal("obj", SubSeq(WatcherKeys, 1, n)) : n \in 0..MaxWatchers}

\* rbd status: an object; items are its members [k, val] in the order of the text
StatusDocs ==
    {JsonDoc(t, <<>>) : t \in {"bad", "null", "arr", "obj"}}
    \cup {JsonDoc("obj", <<[k |-> "size", val |-> JVal("num", <<>>)]>>)}
    \cup {JsonDoc("obj", <<[k |-> "watchers", val |-> w]>>) : w \in WatcherVals}
    \cup {JsonDoc("obj", <<[k |-> "size", val |-> JVal("num", <<>>)],
                           [k |-> "watchers", val |-> w]>>) : w \in WatcherVals}

\* json.Unmarshal fails on text that is not JSON and on a top-level value of
\* another shape than the target's; null leaves the target as it is
UnmarshalFails(doc, shape) == doc.t \notin {shape, "null"}

(***************************************************************************)
(* GetRBDImages, GetRBDInfo                                                *)
(***************************************************************************)
GetRBDImages(pool, p) ==
    LET r == CmdOutput(p)
    IN  IF r.err # "nil"
        THEN Ret(Nil, ExecFailure(r, "Unable to get rbd images: ", "Unable to get rbd images"))
        ELSE IF UnmarshalFails(r.out, "arr")
        THEN Ret(Nil, WithError("Unable to parse rbd ls", "json"))
        ELSE IF r.out.t = "null" THEN Ret(Nil, NilErr)
        ELSE Ret(Some([i \in 1..Len(r.out.items) |->
                          [Name |-> r.out.items[i].image, Size |-> r.out.items[i].size,
                           Format |-> r.out.items[i].format, Pool |-> pool]]), NilErr)

\* mutant: exit status 2 is not told apart from the other failures
GetRBDInfo_NoNotFound(pool, name, p) ==
    LET r == CmdOutput(p)
    IN  IF r.err # "nil"
        THEN Ret(Nil, ExecFailure(r, "Unable to get rbd info: ", "Unable to get rbd info"))
        ELSE IF UnmarshalFails(r.out, "obj")
        THEN Ret(Nil, WithError("Unable to parse rbd info", "json"))
        ELSE IF r.out.t = "null"
        THEN Ret(Some([Name |-> <<>>, Size |-> 0, Pool |-> pool]), NilErr)
        ELSE Ret(Some([Name |-> r.out.items[1].name, Size |-> r.out.items[1].size,
                       Pool |-> pool]), NilErr)

\* mutant: the message of an exit failure is built from the execution error,
\* not from the captured stderr
GetRBDInfo_NoStderr(pool, name, p) ==
    LET r == CmdOutput(p)
    IN  IF r.err # "nil"
        THEN IF r.err = "ExitError" /\ r.status = 2 THEN Ret(Nil, NilErr)
             ELSE Ret(Nil, WithError("Unable to get rbd info", "exec"))
        ELSE IF UnmarshalFails(r.out, "obj")
        THEN Ret(Nil, WithError("Unable to parse rbd info", "json"))
        ELSE IF r.out.t = "null"
        THEN Ret(Some([Name |-> <<>>, Size |-> 0, Pool |-> pool]), NilErr)
        ELSE Ret(Some([Name |-> r.out.items[1].name, Size |-> r.out.items[1].size,
                       Pool |-> pool]), NilErr)

GetRBDInfo(pool, name, p) ==
    LET r == CmdOutput(p)
    IN  IF r.err # "nil"
        THEN IF r.err = "ExitError" /\ r.status = 2
             THEN Ret(Nil, NilErr)    \* image does not exist
             ELSE Ret(Nil, ExecFailure(r, "Unable to get rbd info: ", "Unable to get rbd info"))
        ELSE IF UnmarshalFails(r.out, "obj")
        THEN Ret(Nil, WithError("Unable to parse rbd info", "json"))
        ELSE IF r.out.t = "null"
        THEN Ret(Some([Name |-> <<>>, Size |-> 0, Pool |-> pool]), NilErr)
        ELSE Ret(Some([Name |-> r.out.items[1].name, Size |-> r.out.items[1].size,
                       Pool |-> pool]), NilErr)

(***************************************************************************)
(* GetVolumeID, GetMappedRBDs                                              *)
(***************************************************************************)
\* fmt.Sprintf("%s.%s", pool, image)
GetVolumeID(pool, image) == pool \o <<".">> \o image

\* the orders in which a Go map of n entries may be ranged over: any
Orders(n) == {f \in [1..n -> 1..n] : \A i, j \in 1..n : i # j => f[i] # f[j]}

RECURSIVE InvertTable_FirstWins(_, _, _)
\* mutant: an entry already in devMap is kept
InvertTable_FirstWins(rbdMap, ord, devMap) ==
    IF ord = <<>> THEN devMap
    ELSE LET mapped == rbdMap[Head(ord)]
         IN  InvertTable_FirstWins(rbdMap, Tail(ord),
                 devMap @@ (GetVolumeID(mapped.pool, mapped.name) :> mapped.device))

RECURSIVE InvertTable(_, _, _)
\* the loop over rbdMap, visiting its keys in the order ord
InvertTable(rbdMap, ord, devMap) ==
    IF ord = <<>> THEN devMap
    ELSE LET mapped == rbdMap[Head(ord)]
         IN  InvertTable(rbdMap, Tail(ord),
                 (GetVolumeID(mapped.pool, mapped.name) :> mapped.device) @@ devMap)

GetMappedRBDs(p, ord) ==
    LET r == CmdOutput(p)
    IN  IF r.err # "nil"
        THEN Ret(Nil, ExecFailure(r, "Unable to get RBD map: ", "Unable to get RBD map"))
        ELSE IF UnmarshalFails(r.out, "obj")
        THEN Ret(Nil, WithError("Unable to parse rbd showmapped", "json"))
        ELSE Ret(Some(InvertTable(r.out.items, ord, <<>>)), NilErr)

(***************************************************************************)
(* RBDCreate, RBDRemove, RBDMap, RBDUnmap                                  *)
(***************************************************************************)
RBDCreate(p) ==
    LET r == CmdRun(p)
    IN  IF r.err # "nil"
        THEN Ret(Nil, ExecFailure(r, "Unable to create RBD: ", "Unable to create RBD"))
        ELSE Ret(Nil, NilErr)

RBDRemove(p) ==
    LET r == CmdRun(p)
    IN  IF r.err # "nil"
        THEN Ret(Nil, ExecFailure(r, "Error deleting RBD: ", "Error deleting RBD"))
        ELSE Ret(Nil, NilErr)

RBDMap(p) ==
    LET r == CmdOutput(p)
    IN  IF r.err # "nil"
        THEN Ret(Some(<<>>), ExecFailure(r, "Unable to map RBD: ", "Unable to map RBD"))
        ELSE Ret(Some(TrimSpace(r.out)), NilErr)

RBDUnmap(p) ==
    LET r == CmdRun(p)
    IN  IF r.err # "nil"
        THEN Ret(Nil, ExecFailure(r, "Unable to unmap RBD: ", "Unable to unmap RBD"))
        ELSE Ret(Nil, NilErr)

(***************************************************************************)
(* GetRBDStatus, RBDHasWatchers                                            *)
(***************************************************************************)
RECURSIVE DecodeObject(_, _)
\* the members of a JSON object stored into a map, a later member of the same
\* name replacing an earlier one
DecodeObject(members, m) ==
    IF members = <<>> THEN m
    ELSE DecodeObject(Tail(members), (Head(members).k :> Head(members).val) @@ m)

\* mutant: exit status 2 is taken for "no status" and returned without error
GetRBDStatus_NotFound(p) ==
    LET r == CmdOutput(p)
    IN  IF r.err # "nil"
        THEN IF r.err = "ExitError" /\ r.status = 2 THEN Ret(Nil, NilErr)
             ELSE Ret(Nil, ExecFailure(r, "Unable to get RBD status: ", "Unable to get RBD status"))
        ELSE IF UnmarshalFails(r.out, "obj")
        THEN Ret(Nil, WithError("Unable to parse rbd status", "json"))
        ELSE Ret(Some(DecodeObject(r.out.items, <<>>)), NilErr)

GetRBDStatus(p) ==
    LET r == CmdOutput(p)
    IN  IF r.err # "nil"
        THEN Ret(Nil, ExecFailure(r, "Unable to get RBD status: ", "Unable to get RBD status"))
        ELSE IF UnmarshalFails(r.out, "obj")
        THEN Ret(Nil, WithError("Unable to parse rbd status", "json"))
        ELSE Ret(Some(DecodeObject(r.out.items, <<>>)), NilErr)

\* m[k] of a Go map: the nil interface when k is absent (as for a JSON null)
MapIndex(m, k) == IF k \in DOMAIN m THEN m[k] ELSE JNull

\* mutant: only the original encoding of watchers, a map, is understood
WatchersSwitch_MapOnly(v) ==
    IF v.t = "obj" THEN Ret(Some(Len(v.items) > 0), NilErr)
    ELSE Ret(Some(FALSE), New("Unable to parse RBD status watchers"))

\* the type switch on m["watchers"]
WatchersSwitch(v) ==
    IF v.t = "obj" THEN Ret(Some(Len(v.items) > 0), NilErr)
    ELSE IF v.t = "arr" THEN Ret(Some(Len(v.items) > 0), NilErr)
    ELSE Ret(Some(FALSE), New("Unable to parse RBD status watchers"))

RBDHasWatchers(p) ==
    LET s == GetRBDStatus(p)
    IN  IF s.err.kind # "nil" THEN Ret(Some(FALSE), s.err)
        ELSE WatchersSwitch(MapIndex(IF s.val.nil THEN <<>> ELSE s.val.v, "watchers"))

(***************************************************************************)
(* package net, as ParseMonitorAddresses uses it                           *)
(***************************************************************************)
\* an IP address: its family and its words (4 bytes, or 8 groups of 16 bits)
IP(fam, w) == [fam |-> fam, w |-> w]

\* the nil net.IP that ParseIP returns for text that is no IP literal
NoIP == IP(0, <<>>)

\* the length of the longest prefix of s made of the digits ds
DigitRun(s, ds) ==
    LET isD(c) == \E k \in 1..Len(ds) : ds[k] = c
    IN  IF \A i \in 1..Len(s) : isD(s[i]) THEN Len(s)
        ELSE (CHOOSE i \in 1..Len(s) : ~isD(s[i]) /\ \A j \in 1..(i - 1) : isD(s[j])) - 1

RECURSIVE NumVal(_, _)
\* the value of the digits ds in the given base
NumVal(ds, base) ==
    IF ds = <<>> THEN 0
    ELSE NumVal(SubSeq(ds, 1, Len(ds) - 1), base) * base + HexVal(ds[Len(ds)])

RECURSIVE parseIPv4(_, _)
\* net.parseIPv4: four decimal fields of at most 255 separated by dots, and
\* nothing after them; p holds the fields read so far
parseIPv4(s, p) ==
    IF Len(p) = 4 THEN IF Len(s) = 0 THEN IP(4, p) ELSE NoIP
    ELSE IF Len(s) = 0 THEN NoIP
    ELSE IF Len(p) > 0 /\ s[1] # "." THEN NoIP
    ELSE LET t == IF Len(p) > 0 THEN Tail(s) ELSE s
             c == DigitRun(t, Digits)
             n == NumVal(SubSeq(t, 1, c), 10)
         IN  IF c = 0 \/ n > 255 \/ (c > 1 /\ t[1] = "0") THEN NoIP
             ELSE parseIPv4(From(t, c + 1), Append(p, n))

\* the end of net.parseIPv6: nothing may be left, and the groups read are
\* eight, or fewer with an ellipsis (after group ell) that is filled with zeros
finishIPv6(s, g, ell) ==
    IF Len(s) # 0 THEN NoIP
    ELSE IF Len(g) < 8
    THEN IF ell < 0 THEN NoIP
         ELSE IP(6, SubSeq(g, 1, ell) \o [i \in 1..(8 - Len(g)) |-> 0] \o From(g, ell + 1))
    ELSE IF ell >= 0 THEN NoIP ELSE IP(6, g)

RECURSIVE groupsIPv6(_, _, _)
\* the loop of net.parseIPv6 over the groups of hexadecimal digits (an
\* embedded dotted IPv4 tail is not among the inputs drawn and is refused)
groupsIPv6(s, g, ell) ==
    LET c == DigitRun(s, HexDigits)
        n == NumVal(SubSeq(s, 1, c), 16)
        g2 == Append(g, n)
        s2 == From(s, c + 1)
    IN  IF c = 0 \/ n > 65535 THEN NoIP
        ELSE IF Len(s2) = 0 THEN finishIPv6(s2, g2, ell)
        ELSE IF s2[1] # ":" \/ Len(s2) = 1 THEN NoIP
        ELSE LET s3 == Tail(s2)
                 dbl == s3[1] = ":"
                 s4 == IF dbl THEN Tail(s3) ELSE s3
                 ell2 == IF dbl THEN Len(g2) ELSE ell
             IN  IF dbl /\ ell >= 0 THEN NoIP
                 ELSE IF Len(s4) = 0 \/ Len(g2) = 8 THEN finishIPv6(s4, g2, ell2)
                 ELSE groupsIPv6(s4, g2, ell2)

\* net.parseIPv6: a leading "::" is an ellipsis before the first group
parseIPv6(s) ==
    IF Len(s) >= 2 /\ s[1] = ":" /\ s[2] = ":"
    THEN IF Len(s) = 2 THEN IP(6, [i \in 1..8 |-> 0])
         ELSE groupsIPv6(From(s, 3), <<>>, 0)
    ELSE groupsIPv6(s, <<>>, -1)

\* net.ParseIP: the first of "." and ":" in s decides between IPv4 and IPv6
ParseIP(s) ==
    LET dot == IndexByte(s, ".")
        colon == IndexByte(s, ":")
    IN  IF dot = 0 /\ colon = 0 THEN NoIP
        ELSE IF colon = 0 \/ (dot # 0 /\ dot < colon) THEN parseIPv4(s, <<>>)
        ELSE parseIPv6(s)

\* net.SplitHostPort: host is hostport without its port and without the
\* brackets of a bracketed host; err is "" on success
SplitHostPort(hostport) ==
    LET i == LastIndexByte(hostport, ":")
        end == IndexByte(hostport, "]")
        bracketed == hostport[1] = "["
        host == IF bracketed THEN SubSeq(hostport, 2, end - 1)
                ELSE SubSeq(hostport, 1, i - 1)
        \* hostport[j:] and hostport[k:]
        fromJ == IF bracketed THEN From(hostport, 2) ELSE hostport
        fromK == IF bracketed THEN From(hostport, end + 1) ELSE hostport
        fail(what) == [host |-> <<>>, err |-> what]
    IN  IF i = 0 THEN fail("missing port in address")
        ELSE IF bracketed /\ end = 0 THEN fail("missing ']' in address")
        ELSE IF bracketed /\ end = Len(hostport) THEN fail("missing port in address")
        ELSE IF bracketed /\ end + 1 # i
        THEN IF hostport[end + 1] = ":" THEN fail("too many colons in address")
             ELSE fail("missing port in address")
        ELSE IF ~bracketed /\ Contains(host, ":") THEN fail("too many colons in address")
        ELSE IF Contains(fromJ, "[") THEN fail("unexpected '[' in address")
        ELSE IF Contains(fromK, "]") THEN fail("unexpected ']' in address")
        ELSE [host |-> host, err |-> ""]

\* the names the resolver knows
HostNames == {<<"h">>}

IPa == IP(4, <<10, 0, 0, 1>>)

IPb == IP(6, <<0, 0, 0, 0, 0, 0, 0, 2>>)

\* what the resolver may answer for a name it knows: failure, or addresses
DnsAnswers ==
    {[err |-> TRUE, ips |-> <<>>]}
    \cup {[err |-> FALSE, ips |-> ips] : ips \in {<<>>, <<IPa>>, <<IPa, IPb>>, <<IPb, IPa>>}}

\* net.LookupIP(host) when the resolver answers d for the names it knows
LookupIP(host, d) == IF host \in HostNames THEN d ELSE [err |-> TRUE, ips |-> <<>>]

(***************************************************************************)
(* ParseMonitorAddresses                                                   *)
(***************************************************************************)
\* the regular expression ^\[.*\]:\d+$
ipv6wPortRX(addr) ==
    /\ HasPrefix(addr, "[")
    /\ \E i \in 2..Len(addr) :
          /\ i + 2 <= Len(addr)
          /\ addr[i] = "]"
          /\ addr[i + 1] = ":"
          /\ \A j \in (i + 2)..Len(addr) : IsDigit(addr[j])
          /\ \A j \in 2..(i - 1) : addr[j] # "\n"

\* mutant: any colon is taken for a port separator, brackets or not
hasPort_AnyColon(addr) == Contains(addr, ":")

hasPort(addr) ==
    IF HasPrefix(addr, "[") THEN ipv6wPortRX(addr) ELSE Contains(addr, ":")

\* the body of the loop for one address mon: the error it returns with, or
\* the addresses it appends to monIps
ParseEntry(mon, d) ==
    LET split == SplitHostPort(mon)
        host0 == IF hasPort(mon) THEN split.host ELSE mon
        host == IF HasPrefix(host0, "[") THEN Trim(host0, {"[", "]"}) ELSE host0
        ip == ParseIP(host)
        looked == LookupIP(host, d)
    IN  IF hasPort(mon) /\ split.err # "" THEN [err |-> NetErr(split.err), ips |-> <<>>]
        ELSE IF ip.fam # 0 THEN [err |-> NilErr, ips |-> <<ip>>]
        ELSE IF looked.err THEN [err |-> NetErr("no such host"), ips |-> <<>>]
        ELSE [err |-> NilErr, ips |-> looked.ips]

RECURSIVE ParseLoop_BestEffort(_, _, _)
\* mutant: an address that fails is skipped
ParseLoop_BestEffort(addrs, monIps, d) ==
    IF addrs = <<>> THEN Ret(Some(monIps), NilErr)
    ELSE LET e == ParseEntry(Head(addrs), d)
         IN  ParseLoop_BestEffort(Tail(addrs), monIps \o e.ips, d)

RECURSIVE ParseLoop_Dedup(_, _, _)
\* mutant: an address already in monIps is not appended again
ParseLoop_Dedup(addrs, monIps, d) ==
    IF addrs = <<>> THEN Ret(Some(monIps), NilErr)
    ELSE LET e == ParseEntry(Head(addrs), d)
         IN  IF e.err.kind # "nil" THEN Ret(Nil, e.err)
             ELSE ParseLoop_Dedup(Tail(addrs),
                      monIps \o SelectSeq(e.ips,
                          LAMBDA x : \A i \in 1..Len(monIps) : monIps[i] # x), d)

RECURSIVE ParseLoop(_, _, _)
\* the loop over addrs: the first error ends the call
ParseLoop(addrs, monIps, d) ==
    IF addrs = <<>> THEN Ret(Some(monIps), NilErr)
    ELSE LET e == ParseEntry(Head(addrs), d)
         IN  IF e.err.kind # "nil" THEN Ret(Nil, e.err)
             ELSE ParseLoop(Tail(addrs), monIps \o e.ips, d)

ParseMonitorAddresses(addrs, d) == ParseLoop(addrs, <<>>, d)

\* the address notations drawn
Addr4 == <<"1", ".", "2", ".", "3", ".", "4">>

Addr4Port == Addr4 \o <<":", "9">>

Addr6Port == <<"[", ":", ":", "1", "]", ":", "9">>

Addr6Bracket == <<"[", ":", ":", "1", "]">>

Addr6Bare == <<":", ":", "1">>

AddrHost == <<"h">>

AddrHostPort == <<"h", ":", "9">>

AddrPool == {Addr4, Addr4Port, Addr6Port, Addr6Bracket, Addr6Bare, AddrHost, AddrHostPort}

(***************************************************************************)
(* The calls                                                               *)
(***************************************************************************)
Call(op, pool, image, device, addrs) ==
    [op |-> op, pool |-> pool, image |-> image, device |-> device, addrs |-> addrs]

Calls ==
    {Call(op, <<>>, <<>>, <<>>, <<>>) : op \in {"GetRadosPools", "GetMappedRBDs"}}
    \cup {Call("GetRBDImages", pool, <<>>, <<>>, <<>>) : pool \in Pools}
    \cup {Call(op, pool, image, <<>>, <<>>) :
             op \in {"GetRBDInfo", "RBDCreate", "RBDRemove", "RBDMap", "GetRBDStatus",
                     "RBDHasWatchers"},
             pool \in Pools, image \in Images}
    \cup {Call("RBDUnmap", <<>>, <<>>, device, <<>>) : device \in Devices}
    \cup {Call("ParseMonitorAddresses", <<>>, <<>>, <<>>, addrs) :
             addrs \in SeqsUpTo(AddrPool, MaxAddrs)}

NoProc == [started |-> FALSE, status |-> -1, stdout |-> <<>>, stderr |-> <<>>]

NoDns == [err |-> TRUE, ips |-> <<>>]

Init ==
    /\ pc = "call"
    /\ call \in Calls
    /\ proc = NoProc
    /\ dns = NoDns
    /\ order = <<>>
    /\ result = Ret(Nil, NilErr)

\* a call of op is in progress
Calling(op) == pc = "call" /\ call.op = op

\* the tool behaved as p and the call returns r
Returns(p, r) ==
    /\ pc' = "done"
    /\ proc' = p
    /\ result' = r
    /\ UNCHANGED call

DoGetRadosPools ==
    /\ Calling("GetRadosPools")
    /\ \E p \in ProcBehaviours(PlainOuts, IgnoredPlainOuts) :
        /\ Returns(p, GetRadosPools(p))
        /\ UNCHANGED <<dns, order>>

DoGetRBDImages ==
    /\ Calling("GetRBDImages")
    /\ \E p \in ProcBehaviours(ImageDocs, ImageDocs) :
        /\ Returns(p, GetRBDImages(call.pool, p))
        /\ UNCHANGED <<dns, order>>

DoGetRBDInfo ==
    /\ Calling("GetRBDInfo")
    /\ \E p \in ProcBehaviours(InfoDocs, InfoDocs) :
        /\ Returns(p, GetRBDInfo(call.pool, call.image, p))
        /\ UNCHANGED <<dns, order>>

DoGetMappedRBDs ==
    /\ Calling("GetMappedRBDs")
    /\ \E p \in ProcBehaviours(MappedDocs, {JsonDoc("bad", <<>>)}) :
        \E ord \in Orders(Len(p.stdout.items)) :
            /\ Returns(p, GetMappedRBDs(p, ord))
            /\ order' = ord
            /\ UNCHANGED dns

DoRBDCreate ==
    /\ Calling("RBDCreate")
    /\ \E p \in ProcBehaviours(IgnoredPlainOuts, IgnoredPlainOuts) :
        /\ Returns(p, RBDCreate(p))
        /\ UNCHANGED <<dns, order>>

DoRBDRemove ==
    /\ Calling("RBDRemove")
    /\ \E p \in ProcBehaviours(IgnoredPlainOuts, IgnoredPlainOuts) :
        /\ Returns(p, RBDRemove(p))
        /\ UNCHANGED <<dns, order>>

DoRBDMap ==
    /\ Calling("RBDMap")
    /\ \E p \in ProcBehaviours(PlainOuts, IgnoredPlainOuts) :
        /\ Returns(p, RBDMap(p))
        /\ UNCHANGED <<dns, order>>

DoRBDUnmap ==
    /\ Calling("RBDUnmap")
    /\ \E p \in ProcBehaviours(IgnoredPlainOuts, IgnoredPlainOuts) :
        /\ Returns(p, RBDUnmap(p))
        /\ UNCHANGED <<dns, order>>

DoGetRBDStatus ==
    /\ Calling("GetRBDStatus")
    /\ \E p \in ProcBehaviours(StatusDocs, StatusDocs) :
        /\ Returns(p, GetRBDStatus(p))
        /\ UNCHANGED <<dns, order>>

DoRBDHasWatchers ==
    /\ Calling("RBDHasWatchers")
    /\ \E p \in ProcBehaviours(StatusDocs, StatusDocs) :
        /\ Returns(p, RBDHasWatchers(p))
        /\ UNCHANGED <<dns, order>>

DoParseMonitorAddresses ==
    /\ Calling("ParseMonitorAddresses")
    /\ \E d \in DnsAnswers :
        /\ pc' = "done"
        /\ dns' = d
        /\ result' = ParseMonitorAddresses(call.addrs, d)
        /\ UNCHANGED <<call, proc, order>>

Next ==
    \/ DoGetRadosPools
    \/ DoGetRBDImages
    \/ DoGetRBDInfo
    \/ DoGetMappedRBDs
    \/ DoRBDCreate
    \/ DoRBDRemove
    \/ DoRBDMap
    \/ DoRBDUnmap
    \/ DoGetRBDStatus
    \/ DoRBDHasWatchers
    \/ DoParseMonitorAddresses

Spec == Init /\ [][Next]_vars

(***************************************************************************)
(* Properties                                                              *)
(***************************************************************************)
\* the call of op has returned
Done(op) == pc = "done" /\ call.op = op

\* the tool ran and exited with the given status
Exited(status) == proc.started /\ proc.status = status

\* the error returned carries text at the end of its message, after the prefix
CarriesText(err, text) ==
    /\ err.kind = "goof"
    /\ Len(err.msg) = 1 + Len(text)
    /\ SubSeq(err.msg, 2, Len(err.msg)) = text

\* C1: GetRBDInfo returns (nil, nil), neither image detail nor error, whenever
\* the tool exits with status 2, whatever the pool and image and whatever the
\* tool wrote to stdout and stderr.
C1_ExitTwoIsNotFound ==
    (Done("GetRBDInfo") /\ Exited(2)) => (result.val.nil /\ result.err.kind = "nil")

C1_Witness ==
    /\ Done("GetRBDInfo")
    /\ Exited(2)
    /\ proc.stderr # <<>>
    /\ proc.stdout.t = "obj"
    /\ result.val.nil
    /\ result.err.kind = "nil"

\* C2: GetRBDInfo returns no image detail and an error whose message ends with
\* the tool's stderr text, unchanged, when the tool exits with status 1 having
\* written non-empty text to stderr.
C2_ExitOneCarriesStderr ==
    (Done("GetRBDInfo") /\ Exited(1) /\ proc.stderr # <<>>)
        => (result.val.nil /\ CarriesText(result.err, proc.stderr))

C2_Witness ==
    /\ Done("GetRBDInfo")
    /\ Exited(1)
    /\ proc.stderr = <<"E", "F">>
    /\ result.err.msg = <<"Unable to get rbd info: ", "E", "F">>

\* the value of the member "watchers" of the status document the tool wrote
\* (the last of that name), JSON null when there is none
WatchersOf(doc) ==
    LET at == {i \in 1..Len(doc.items) : doc.items[i].k = "watchers"}
    IN  IF at = {} THEN JNull
        ELSE doc.items[CHOOSE i \in at : \A j \in at : j <= i].val

\* C3: RBDHasWatchers on a status document that decoded: watchers a mapping
\* gives true exactly when it has members, watchers a sequence gives true
\* exactly when it has elements, and watchers absent, null or of another shape
\* gives an error.
C3_WatchersByShape ==
    (Done("RBDHasWatchers") /\ Exited(0) /\ proc.stdout.t \in {"obj", "null"})
        => LET w == WatchersOf(proc.stdout)
           IN  IF w.t \in {"obj", "arr"}
               THEN result.err.kind = "nil" /\ result.val.v = (Len(w.items) > 0)
               ELSE result.err.kind # "nil"

C3_Witness ==
    /\ Done("RBDHasWatchers")
    /\ Exited(0)
    /\ proc.stdout.t = "obj"
    /\ WatchersOf(proc.stdout).t = "arr"
    /\ Len(WatchersOf(proc.stdout).items) > 0
    /\ result.err.kind = "nil"
    /\ result.val.v = TRUE

\* the positions of the newlines of text
NewLines(text) == {i \in 1..Len(text) : text[i] = "\n"}

\* the number of lines of text: one per newline, and a last one when text
\* does not end with a newline
LineCount(text) ==
    Cardinality(NewLines(text))
        + (IF Len(text) > 0 /\ text[Len(text)] # "\n" THEN 1 ELSE 0)

\* the position of the k-th newline of text; 0 for k = 0, and one past the end
\* of text when it has fewer
NewLineAt(text, k) ==
    IF k = 0 THEN 0
    ELSE IF k > Cardinality(NewLines(text)) THEN Len(text) + 1
    ELSE CHOOSE i \in NewLines(text) :
             Cardinality({j \in NewLines(text) : j <= i}) = k

\* the k-th line of text, without its newline and without a carriage return
\* before it
Line(text, k) ==
    LET raw == SubSeq(text, NewLineAt(text, k - 1) + 1, NewLineAt(text, k) - 1)
    IN  IF Len(raw) > 0 /\ raw[Len(raw)] = "\r" THEN SubSeq(raw, 1, Len(raw) - 1) ELSE raw

\* the lines of text, in order
Lines(text) == [k \in 1..LineCount(text) |-> Line(text, k)]

\* C4, as claimed: on exit 0 GetRadosPools returns the non-empty lines of the
\* output in order, blank lines skipped, so that no pool name is empty.
C4_BlankLinesSkipped ==
    (Done("GetRadosPools") /\ Exited(0))
        => /\ result.err.kind = "nil"
           /\ result.val.v = SelectSeq(Lines(proc.stdout), LAMBDA l : l # <<>>)

\* C4, amended: on exit 0 GetRadosPools returns every line of the output in
\* order, without its line terminator; a blank line is returned as an empty
\* pool name.
C4_EveryLineReturned ==
    (Done("GetRadosPools") /\ Exited(0))
        => /\ result.err.kind = "nil"
           /\ ~result.val.nil
           /\ result.val.v = Lines(proc.stdout)

C4_Witness ==
    /\ Done("GetRadosPools")
    /\ Exited(0)
    /\ proc.stdout = <<"a", "\n", "\n", "b", "\n">>
    /\ result.val.v = <<<<"a">>, <<>>, <<"b">>>>

IPv6Loopback == IP(6, <<0, 0, 0, 0, 0, 0, 0, 1>>)

\* C5, as claimed: ParseMonitorAddresses fails on the bracketed IPv6 literal
\* without port, "[::1]".
C5_BracketOnlyRejected ==
    (Done("ParseMonitorAddresses") /\ call.addrs = <<Addr6Bracket>>)
        => result.err.kind # "nil"

\* C5, amended: ParseMonitorAddresses accepts the bracketed IPv6 literal
\* without port: on "[::1]" it returns the address ::1 and no error.
C5_BracketOnlyAccepted ==
    (Done("ParseMonitorAddresses") /\ call.addrs = <<Addr6Bracket>>)
        => /\ result.err.kind = "nil"
           /\ ~result.val.nil
           /\ result.val.v = <<IPv6Loopback>>

C5_Witness ==
    /\ Done("ParseMonitorAddresses")
    /\ call.addrs = <<Addr6Bracket>>
    /\ result.err.kind = "nil"
    /\ Len(result.val.v) = 1

\* the i-th address of the call cannot be split or resolved
EntryFails(i) == ParseEntry(call.addrs[i], dns).err.kind # "nil"

\* C6: ParseMonitorAddresses is fail-fast: when any address of the list, at any
\* position, cannot be split or resolved, the call returns an error and no
\* address list; an error is never returned together with addresses.
C6_FailFast ==
    Done("ParseMonitorAddresses")
        => /\ (\E i \in 1..Len(call.addrs) : EntryFails(i))
                  => (result.err.kind # "nil" /\ result.val.nil)
           /\ result.err.kind # "nil" => result.val.nil

C6_Witness ==
    /\ Done("ParseMonitorAddresses")
    /\ Len(call.addrs) = 2
    /\ ~EntryFails(1)
    /\ ParseEntry(call.addrs[1], dns).ips # <<>>
    /\ EntryFails(2)
    /\ call.addrs[2] = AddrHost
    /\ result.err.kind # "nil"
    /\ result.val.nil

\* the literal notations IPv4, IPv4:port and [IPv6]:port among the addresses drawn
LiteralForms == {Addr4, Addr4Port, Addr6Port}

\* the IP address each of them denotes
LiteralIP(addr) == IF addr = Addr6Port THEN IPv6Loopback ELSE IP(4, <<1, 2, 3, 4>>)

\* C7: on a list of literal addresses (IPv4, IPv4:port, [IPv6]:port)
\* ParseMonitorAddresses returns, without error, a list of the same length
\* whose i-th element is the IP of the i-th address, port and brackets removed;
\* order is kept and a repeated address is returned as often as it is given.
C7_LiteralsInOrder ==
    (Done("ParseMonitorAddresses") /\ \A i \in 1..Len(call.addrs) : call.addrs[i] \in LiteralForms)
        => /\ result.err.kind = "nil"
           /\ ~result.val.nil
           /\ Len(result.val.v) = Len(call.addrs)
           /\ \A i \in 1..Len(call.addrs) : result.val.v[i] = LiteralIP(call.addrs[i])

C7_Witness ==
    /\ Done("ParseMonitorAddresses")
    /\ call.addrs = <<Addr4Port, Addr4>>
    /\ result.err.kind = "nil"
    /\ result.val.v = <<IP(4, <<1, 2, 3, 4>>), IP(4, <<1, 2, 3, 4>>)>>

\* GetMappedRBDs returned a map decoded from the table the tool wrote
Inverted == Done("GetMappedRBDs") /\ Exited(0) /\ proc.stdout.t \in {"obj", "null"}

\* the volume ID of the i-th entry of the table
EntryID(i) == GetVolumeID(proc.stdout.items[i].pool, proc.stdout.items[i].name)

\* the entries of the table with the volume ID vid
EntriesOf(vid) == {i \in 1..Len(proc.stdout.items) : EntryID(i) = vid}

\* the returned map has exactly one entry for each volume ID of the table
OneEntryPerVolumeID ==
    /\ result.err.kind = "nil"
    /\ ~result.val.nil
    /\ DOMAIN result.val.v = {EntryID(i) : i \in 1..Len(proc.stdout.items)}

\* C8, as claimed: the map returned by GetMappedRBDs has one entry per volume
\* ID of the table, and when several entries have the same volume ID its
\* device is that of the later entry of the table.
C8_LaterTableEntryWins ==
    Inverted
        => /\ OneEntryPerVolumeID
           /\ \A vid \in DOMAIN result.val.v :
                 result.val.v[vid] =
                     proc.stdout.items[CHOOSE i \in EntriesOf(vid) :
                                           \A j \in EntriesOf(vid) : j <= i].device

\* the place of table entry i in the order the map was ranged over
VisitedAt(i) == CHOOSE n \in 1..Len(order) : order[n] = i

\* C8, amended: the map returned by GetMappedRBDs has one entry per volume ID
\* of the table, and when several entries have the same volume ID its device
\* is that of the one the range over the decoded map visits last, which may
\* be any of them, not the later one of the table.
C8_LastVisitedEntryWins ==
    Inverted
        => /\ OneEntryPerVolumeID
           /\ \A vid \in DOMAIN result.val.v :
                 result.val.v[vid] =
                     proc.stdout.items[CHOOSE i \in EntriesOf(vid) :
                         \A j \in EntriesOf(vid) : VisitedAt(j) <= VisitedAt(i)].device

C8_Witness ==
    /\ Inverted
    /\ Len(proc.stdout.items) = 2
    /\ EntryID(1) = EntryID(2)
    /\ proc.stdout.items[1].pool # proc.stdout.items[2].pool
    /\ proc.stdout.items[1].device # proc.stdout.items[2].device
    /\ Cardinality(DOMAIN result.val.v) = 1
    /\ result.val.v[EntryID(1)] = proc.stdout.items[1].device

\* the operations other than GetRBDInfo
OtherOps ==
    {"GetRadosPools", "GetRBDImages", "GetMappedRBDs", "RBDCreate", "RBDRemove", "RBDMap",
     "RBDUnmap", "GetRBDStatus", "RBDHasWatchers"}

\* the call returned no value: nil, or the zero value of a string or boolean
NoValue ==
    IF call.op = "RBDMap" THEN result.val.v = <<>>
    ELSE IF call.op = "RBDHasWatchers" THEN result.val.v = FALSE
    ELSE result.val.nil

\* C9: for every operation other than GetRBDInfo an exit of the tool with
\* status 2, as with any other non-zero status, returns an error and no value.
C9_ExitTwoFailsElsewhere ==
    (pc = "done" /\ call.op \in OtherOps /\ proc.started /\ proc.status # 0)
        => (result.err.kind # "nil" /\ NoValue)

C9_Witness ==
    /\ Done("GetRBDStatus")
    /\ Exited(2)
    /\ proc.stdout.t = "obj"
    /\ result.err.kind = "goof"
    /\ result.val.nil

\* C10, as claimed: when the tool of RBDCreate, RBDRemove or RBDUnmap exits
\* non-zero having written non-empty text to stderr, the error returned has a
\* message built from that text.
C10_RunFailureCarriesStderr ==
    (pc = "done" /\ call.op \in {"RBDCreate", "RBDRemove", "RBDUnmap"}
        /\ proc.started /\ proc.status > 0 /\ proc.stderr # <<>>)
        => CarriesText(result.err, proc.stderr)

====
